---- MODULE Spec2Model ----
(***************************************************************************)
(* Model of the motion integrator of meganetaaan/mouse-follower:           *)
(*   packages/mouse-follower/src/follower/physics.ts                       *)
(* calculateDistance, calculateAcceleration, calculateBrakingForce,        *)
(* updatePhysics and the stateful class Physics.                           *)
(*                                                                         *)
(* Numbers.  The code computes in IEEE doubles.  Here a number is an       *)
(* integer count of 1/Scale units (pixels, pixels/s, pixels/s^2, seconds,  *)
(* 1/s and plain ratios alike).  Addition and subtraction are exact; a     *)
(* product, a quotient and a square root are rounded to the nearest unit,  *)
(* as the double operations round to the nearest double.  Properties that  *)
(* the specification states "within floating tolerance" are stated with    *)
(* the tolerance Tol(m, d), the rounding error of this representation.     *)
(***************************************************************************)
EXTENDS Integers, FiniteSets, Sequences, TLC

\* Units per pixel (and per second): the precision of the number model.
Scale == 15

\* Calls of update() along one behaviour of Spec and SpecStep.
MaxSteps == 3

\* SpecBrake: the largest distance, in pixels, calculateBrakingForce is given.
MaxDistance == 210

\* SpecFollower: animation frames run along one behaviour.
MaxFrames == 3

\* SpecFollower: start() calls not yet settled, and requested frames not yet
\* run.
MaxPending == 2
\* SpecSprite: calls of the Sprite's methods.
MaxCalls == 4

VARIABLES
    state,    \* Physics.state: [position, velocity, target], each a vector
    config,   \* Physics.config: the six scalars
    held,     \* the object the caller holds a reference to, and the fields of
              \* state that are that very object (empty when it is a copy)
    last,     \* the last operation: its arguments, the state before it, the
              \* locals of updatePhysics, the value returned
    steps,    \* number of update() calls so far
    frameDt,  \* SpecConverge: the elapsed time the driving loop passes per frame
    given,    \* the six scalars the constructor was given
    peer,     \* a second Physics instance: its state, and whether its
              \* this.state is the very object the first instance's is
    follower, \* the FollowerImpl that owns the Physics instance, with its Sprite
    env,      \* what surrounds the follower: the follow target, the document,
              \* the pending animation frame, the events dispatched
    sprite    \* SpecSprite: a Sprite with its Animation, the wrappers it has in
              \* its parent, its interval timers and its image loads

vars == <<state, config, held, last, steps, frameDt, given, peer, follower, env,
          sprite>>

----------------------------------------------------------------------------
\* Numbers

Abs(a) == IF a < 0 THEN -a ELSE a

\* a / b for b > 0, rounded to the nearest integer, ties away from zero.
RoundDiv[a \in Int, b \in Int] ==
    IF a >= 0 THEN (2 * a + b) \div (2 * b)
    ELSE -((2 * (-a) + b) \div (2 * b))

\* The product of two numbers.
Mul(a, b) == RoundDiv[a * b, Scale]

\* The quotient of two numbers; every divisor in the code is positive.
Div(a, b) == RoundDiv[a * Scale, b]

\* The largest r in lo..hi with r * r <= n.
SqrtSearch[n \in Nat, lo \in Nat, hi \in Nat] ==
    IF lo >= hi THEN lo
    ELSE LET mid == (lo + hi + 1) \div 2
         IN  IF mid * mid <= n THEN SqrtSearch[n, mid, hi]
                                ELSE SqrtSearch[n, lo, mid - 1]

\* Math.sqrt(x*x + y*y): the square root of the sum of squares, rounded to
\* the nearest unit.
Hypot[x \in Int, y \in Int] ==
    LET n == x * x + y * y
        r == SqrtSearch[n, 0, 46340]
    IN  IF n - r * r > r THEN r + 1 ELSE r

Vec(x, y) == [x |-> x, y |-> y]
Zero == Vec(0, 0)

\* A pixel quantity as a number.
Px(n) == n * Scale

----------------------------------------------------------------------------
\* physics.ts

calculateDistance(from, to) ==
    LET dx == to.x - from.x
        dy == to.y - from.y
    IN  Hypot[dx, dy]

\* calculateAcceleration with the magnitude following the distance: the
\* difference vector limited to maxAccel instead of normalised to it.
calculateAcceleration_Proportional(position, target, maxAccel) ==
    LET dx == target.x - position.x
        dy == target.y - position.y
        distance == calculateDistance(position, target)
        magnitude == IF distance < maxAccel THEN distance ELSE maxAccel
    IN  IF distance = 0 THEN Zero
        ELSE Vec(Mul(Div(dx, distance), magnitude),
                 Mul(Div(dy, distance), magnitude))

calculateAcceleration(position, target, maxAccel) ==
    LET dx == target.x - position.x
        dy == target.y - position.y
        distance == calculateDistance(position, target)
    IN  IF distance = 0 THEN Zero
        ELSE LET directionX == Div(dx, distance)
                 directionY == Div(dy, distance)
             IN  Vec(Mul(directionX, maxAccel), Mul(directionY, maxAccel))

\* calculateBrakingForce with the ramp the wrong way round (ratio instead of
\* 1 - ratio).
calculateBrakingForce_Inverted(distance, stopWithin, brakingStartDistance, brakingStrength) ==
    IF distance >= brakingStartDistance THEN 0
    ELSE IF distance > stopWithin THEN
        LET brakingRange == brakingStartDistance - stopWithin
            distanceInBrakingZone == distance - stopWithin
            brakingRatio == Div(distanceInBrakingZone, brakingRange)
        IN  Mul(brakingStrength, brakingRatio)
    ELSE brakingStrength

\* The result of a division by zero: NaN or an infinity, no braking force.
NotANumber == -1

\* calculateBrakingForce with the ramp entered at its two ends as well (> and
\* >= exchanged).
calculateBrakingForce_RampAtEnds(distance, stopWithin, brakingStartDistance, brakingStrength) ==
    IF distance > brakingStartDistance THEN 0
    ELSE IF distance >= stopWithin THEN
        LET brakingRange == brakingStartDistance - stopWithin
            distanceInBrakingZone == distance - stopWithin
        IN  IF brakingRange = 0 THEN NotANumber
            ELSE Mul(brakingStrength, Scale - Div(distanceInBrakingZone, brakingRange))
    ELSE brakingStrength

\* calculateBrakingForce, lines 34-56.
calculateBrakingForce(distance, stopWithin, brakingStartDistance, brakingStrength) ==
    IF distance >= brakingStartDistance THEN 0
    ELSE IF distance > stopWithin THEN
        LET brakingRange == brakingStartDistance - stopWithin
            distanceInBrakingZone == distance - stopWithin
            brakingRatio == Scale - Div(distanceInBrakingZone, brakingRange)
        IN  Mul(brakingStrength, brakingRatio)
    ELSE brakingStrength

\* The complete stop condition with < for <=.
completeStop_Strict(s, c) ==
    LET distance == calculateDistance(s.position, s.target)
        currentSpeed == Hypot[s.velocity.x, s.velocity.y]
    IN  distance < c.stopWithin /\ currentSpeed < c.minStopVelocity

\* updatePhysics, lines 63-69: the complete stop condition.
completeStop(s, c) ==
    LET distance == calculateDistance(s.position, s.target)
        currentSpeed == Hypot[s.velocity.x, s.velocity.y]
    IN  distance <= c.stopWithin /\ currentSpeed <= c.minStopVelocity

\* The velocity integration with the braking term added instead of subtracted.
newVelocity_BrakeAdds(s, c, deltaTime) ==
    LET distance == calculateDistance(s.position, s.target)
        accel == calculateAcceleration(s.position, s.target, c.maxAccel)
        brakingForce == calculateBrakingForce(distance, c.stopWithin,
                            c.brakingStartDistance, c.brakingStrength)
    IN  Vec(s.velocity.x + Mul(accel.x, deltaTime)
                + Mul(Mul(s.velocity.x, brakingForce), deltaTime),
            s.velocity.y + Mul(accel.y, deltaTime)
                + Mul(Mul(s.velocity.y, brakingForce), deltaTime))

\* The velocity integration with the braking term subtracted twice.
newVelocity_BrakeTwice(s, c, deltaTime) ==
    LET distance == calculateDistance(s.position, s.target)
        accel == calculateAcceleration(s.position, s.target, c.maxAccel)
        brakingForce == calculateBrakingForce(distance, c.stopWithin,
                            c.brakingStartDistance, c.brakingStrength)
    IN  Vec(s.velocity.x + Mul(accel.x, deltaTime)
                - 2 * Mul(Mul(s.velocity.x, brakingForce), deltaTime),
            s.velocity.y + Mul(accel.y, deltaTime)
                - 2 * Mul(Mul(s.velocity.y, brakingForce), deltaTime))

\* updatePhysics, lines 77-101: driving force and braking force applied.
newVelocity(s, c, deltaTime) ==
    LET distance == calculateDistance(s.position, s.target)
        accel == calculateAcceleration(s.position, s.target, c.maxAccel)
        brakingForce == calculateBrakingForce(distance, c.stopWithin,
                            c.brakingStartDistance, c.brakingStrength)
    IN  Vec(s.velocity.x + Mul(accel.x, deltaTime)
                - Mul(Mul(s.velocity.x, brakingForce), deltaTime),
            s.velocity.y + Mul(accel.y, deltaTime)
                - Mul(Mul(s.velocity.y, brakingForce), deltaTime))

\* The velocity limit left out.
limitVelocity_None(v, maxVelocity) == v

\* updatePhysics, lines 103-111: the velocity limit.
limitVelocity(v, maxVelocity) ==
    LET newSpeed == Hypot[v.x, v.y]
    IN  IF newSpeed > maxVelocity
        THEN Vec(Mul(Div(v.x, newSpeed), maxVelocity),
                 Mul(Div(v.y, newSpeed), maxVelocity))
        ELSE v

\* updatePhysics whose complete stop returns the state as it is, the velocity
\* not set to zero.
updatePhysics_KeepVelocity(s, c, deltaTime) ==
    IF completeStop(s, c)
    THEN [position |-> s.position, velocity |-> s.velocity, target |-> s.target]
    ELSE LET v == limitVelocity(newVelocity(s, c, deltaTime), c.maxVelocity)
         IN  [position |-> Vec(s.position.x + Mul(v.x, deltaTime),
                               s.position.y + Mul(v.y, deltaTime)),
              velocity |-> v,
              target   |-> s.target]

\* updatePhysics without the complete stop and with the direction taken from
\* the angle of the difference vector, which is the x axis when position =
\* target (Math.atan2(0, 0) = 0).
updatePhysics_NoStopByAngle(s, c, deltaTime) ==
    LET distance == calculateDistance(s.position, s.target)
        accel == IF distance = 0 THEN Vec(c.maxAccel, 0)
                 ELSE calculateAcceleration(s.position, s.target, c.maxAccel)
        brakingForce == calculateBrakingForce(distance, c.stopWithin,
                            c.brakingStartDistance, c.brakingStrength)
        raw == Vec(s.velocity.x + Mul(accel.x, deltaTime)
                       - Mul(Mul(s.velocity.x, brakingForce), deltaTime),
                   s.velocity.y + Mul(accel.y, deltaTime)
                       - Mul(Mul(s.velocity.y, brakingForce), deltaTime))
        v == limitVelocity(raw, c.maxVelocity)
    IN  [position |-> Vec(s.position.x + Mul(v.x, deltaTime),
                          s.position.y + Mul(v.y, deltaTime)),
         velocity |-> v,
         target   |-> s.target]

\* updatePhysics that moves the position by the velocity before the limit.
updatePhysics_IntegrateRaw(s, c, deltaTime) ==
    IF completeStop(s, c)
    THEN [position |-> s.position, velocity |-> Zero, target |-> s.target]
    ELSE LET raw == newVelocity(s, c, deltaTime)
             v == limitVelocity(raw, c.maxVelocity)
         IN  [position |-> Vec(s.position.x + Mul(raw.x, deltaTime),
                               s.position.y + Mul(raw.y, deltaTime)),
              velocity |-> v,
              target   |-> s.target]

updatePhysics(s, c, deltaTime) ==
    IF completeStop(s, c)
    THEN [position |-> s.position, velocity |-> Zero, target |-> s.target]
    ELSE LET v == limitVelocity(newVelocity(s, c, deltaTime), c.maxVelocity)
         IN  [position |-> Vec(s.position.x + Mul(v.x, deltaTime),
                               s.position.y + Mul(v.y, deltaTime)),
              velocity |-> v,
              target   |-> s.target]

----------------------------------------------------------------------------
\* Inputs

\* physics.ts lines 197-204: the configuration of the updatePhysics tests.
TestConfig ==
    [maxAccel |-> Px(100), maxVelocity |-> Px(200), stopWithin |-> Px(30),
     brakingStartDistance |-> Px(100), brakingStrength |-> Px(8),
     minStopVelocity |-> Px(10)]

\* physics.ts lines 310-317: defaultConfig of the Physics class tests.
defaultConfig ==
    [maxAccel |-> Px(2000), maxVelocity |-> Px(400), stopWithin |-> Px(30),
     brakingStartDistance |-> Px(200), brakingStrength |-> Px(8),
     minStopVelocity |-> Px(50)]

Configs == {TestConfig, defaultConfig}

\* Elapsed times: 0, one unit of time (a frame) and about 1/4 s (a stalled
\* frame).
DtSet == {0, 1, Scale \div 4}

\* Points passed to the constructor and to setTarget.
InitialPositions == {Vec(Px(0), Px(0)), Vec(Px(199), Px(0))}
TargetSet == {Vec(Px(200), Px(0)), Vec(Px(100), Px(100))}

\* What a caller writes into an object it holds.
MutateSet == {Vec(Px(-7), Px(9))}

\* isMoving's default threshold, in pixels per second.
DefaultThreshold == 10

\* Inputs of updatePhysics as an exported function.
StepPositions == {Vec(Px(0), Px(0)), Vec(Px(95), Px(0)), Vec(Px(70), Px(0)),
                  Vec(Px(60), Px(80)), Vec(Px(100) - Scale \div 2, Px(0))}
StepVelocities == {Zero, Vec(Px(5), Px(0)), Vec(Px(50), Px(0)),
                   Vec(Px(-30), Px(40)), Vec(Px(360), Px(480)),
                   Vec(Px(100), Px(-450))}
StepTargets == {Vec(Px(100), Px(0)), Vec(Px(250), Px(0)), Vec(Px(0), Px(0)),
                Vec(Px(60), Px(-120))}

\* SpecConverge: where the body starts, the target being the origin.
ConvergePositions == {Vec(Px(-25), Px(0)), Vec(Px(-50), Px(0)), Vec(Px(-30), Px(-40))}
ConvergeVelocities == {Zero, Vec(Px(150), Px(0))}
\* SpecConverge: one or two units of time per frame.
FrameDtSet == {1, 2}

----------------------------------------------------------------------------
\* The classes Animation and Sprite

\* The animations of the Sprite tests: a repeating walk of two frames and an
\* action of one frame.
defaultAnimations ==
    [walk |-> [numFrames |-> 2, repeat |-> TRUE],
     action |-> [numFrames |-> 1, repeat |-> FALSE]]

\* The animations a follower gets: a repeating walk and an action that plays
\* once, of four frames each.
DEFAULT_ANIMATIONS ==
    [walk |-> [numFrames |-> 4, repeat |-> TRUE],
     action |-> [numFrames |-> 4, repeat |-> FALSE]]

AnimationSets == {defaultAnimations, DEFAULT_ANIMATIONS}

\* The names passed to playAnimation: two that are in the config and one that
\* is not.
AnimationNames == {"walk", "action", "invalid"}

Directions == {"left", "right"}

\* An Animation after its constructor. timer is whether #timer holds an
\* interval id; active is the number of interval timers this Animation has set
\* and nothing has cleared.
NoAnimation ==
    [name |-> "", index |-> 0, isPlaying |-> FALSE, timer |-> FALSE, active |-> 0]

\* pause(): clearInterval(#timer) if #timer is defined; isPlaying = false
pause(a) ==
    [a EXCEPT !.active = IF a.timer THEN @ - 1 ELSE @,
              !.timer = FALSE,
              !.isPlaying = FALSE]

\* play(name) that does not stop the animation that is playing.
play_NoPause(a, animations, name) ==
    IF name \notin DOMAIN animations
    THEN a
    ELSE LET c == [a EXCEPT !.name = name, !.index = 0, !.isPlaying = TRUE]
         IN  IF animations[name].numFrames = 1
             THEN [c EXCEPT !.isPlaying = FALSE]
             ELSE [c EXCEPT !.timer = TRUE, !.active = @ + 1]

\* play(name) that keeps the frame index.
play_KeepIndex(a, animations, name) ==
    IF name \notin DOMAIN animations
    THEN a
    ELSE LET b == IF a.isPlaying THEN pause(a) ELSE a
             c == [b EXCEPT !.name = name, !.isPlaying = TRUE]
         IN  IF animations[name].numFrames = 1
             THEN [c EXCEPT !.isPlaying = FALSE]
             ELSE [c EXCEPT !.timer = TRUE, !.active = @ + 1]

\* play(name): nothing for a name that is not in the config; else pause() if
\* isPlaying, then name, index 0, isPlaying; a single frame is not playing and
\* gets no timer; any other number of frames gets a new interval timer in
\* #timer.
play(a, animations, name) ==
    IF name \notin DOMAIN animations
    THEN a
    ELSE LET b == IF a.isPlaying THEN pause(a) ELSE a
             c == [b EXCEPT !.name = name, !.index = 0, !.isPlaying = TRUE]
         IN  IF animations[name].numFrames = 1
             THEN [c EXCEPT !.isPlaying = FALSE]
             ELSE [c EXCEPT !.timer = TRUE, !.active = @ + 1]

\* #updateFrame() that lets an animation that plays once start over.
updateFrame_Wrap(a, animations) ==
    IF a.name \notin DOMAIN animations
    THEN pause(a)
    ELSE IF a.index + 1 >= animations[a.name].numFrames
         THEN [a EXCEPT !.index = 0]
         ELSE [a EXCEPT !.index = a.index + 1]

\* #updateFrame(), what an interval timer calls: index++, and at numFrames
\* back to 0 when the animation repeats, else pause() and the last frame.
updateFrame(a, animations) ==
    IF a.name \notin DOMAIN animations
    THEN pause(a)
    ELSE LET animation == animations[a.name]
             index == a.index + 1
         IN  IF index >= animation.numFrames
             THEN IF animation.repeat
                  THEN [a EXCEPT !.index = 0]
                  ELSE [pause(a) EXCEPT !.index = animation.numFrames - 1]
             ELSE [a EXCEPT !.index = index]

\* new Sprite(config, parent). wrapper is "undefined", or whether #wrapper is
\* a child of the parent; elements is the number of wrappers of this sprite
\* that are children of the parent; loads is the number of initialize() calls
\* that wait for the image; canvas is what was drawn last, its direction
\* "none" while nothing was drawn.
Sprite(animations, parent) ==
    [animations |-> animations, parent |-> parent, isInitialized |-> FALSE,
     wrapper |-> "undefined", image |-> FALSE, animation |-> NoAnimation,
     canvas |-> [name |-> "", index |-> 0, direction |-> "none"],
     elements |-> 0, loads |-> 0]

NoSprite == Sprite(defaultAnimations, FALSE)

\* attach(parent): the wrapper leaves the parent it has and is appended.
attach(s) ==
    [s EXCEPT !.elements = IF s.wrapper = "attached" THEN @ ELSE @ + 1,
              !.wrapper = "attached",
              !.parent = TRUE]

\* detach()
detach(s) ==
    IF s.wrapper = "attached"
    THEN [s EXCEPT !.wrapper = "detached", !.elements = @ - 1]
    ELSE s

\* initialize() after the await: the image, a new wrapper (the wrapper the
\* sprite had stays where it is), attach if there is a parent, #isInitialized.
initialized(s) ==
    LET t == [s EXCEPT !.image = TRUE, !.wrapper = "detached"]
        u == IF t.parent THEN attach(t) ELSE t
    IN  [u EXCEPT !.isInitialized = TRUE]

\* destroy() that leaves the animation as it is.
destroy_KeepAnimation(s) ==
    [detach(s) EXCEPT !.wrapper = "undefined", !.image = FALSE,
                      !.parent = FALSE, !.isInitialized = FALSE]

\* destroy(): pause the animation, detach, clear the references.
destroy(s) ==
    LET t == detach([s EXCEPT !.animation = pause(@)])
    IN  [t EXCEPT !.wrapper = "undefined", !.image = FALSE,
                  !.parent = FALSE, !.isInitialized = FALSE]

\* render(position, direction): the current frame, drawn facing direction.
render(s, direction) ==
    IF ~s.isInitialized \/ ~s.image
    THEN s
    ELSE [s EXCEPT !.canvas = [name |-> s.animation.name,
                               index |-> s.animation.index,
                               direction |-> direction]]

\* playAnimation(name) that does not look at #isInitialized.
playAnimation_Always(s, name) ==
    [s EXCEPT !.animation = play(@, s.animations, name)]

\* playAnimation(name)
playAnimation(s, name) ==
    IF ~s.isInitialized
    THEN s
    ELSE [s EXCEPT !.animation = play(@, s.animations, name)]

\* pauseAnimation()
pauseAnimation(s) == [s EXCEPT !.animation = pause(@)]

isAnimating(s) == s.animation.isPlaying
getCurrentAnimation(s) == s.animation.name
getCurrentFrameIndex(s) == s.animation.index

----------------------------------------------------------------------------
\* The class Physics

Fields == {"position", "velocity", "target"}

\* A FollowerImpl before start(): its fields and those of its Sprite, facing
\* being the direction the sprite was rendered with last.
\* animationId is "undefined", "pending" (the frame it names has not run) or
\* "fired" (it has).
NoFollower ==
    [isRunning |-> FALSE, wasMoving |-> FALSE, animationId |-> "undefined",
     lastTime |-> 0,
     sprite |-> [isInitialized |-> FALSE, wrapper |-> FALSE, isPlaying |-> FALSE,
                 facing |-> "none"]]

\* What surrounds a follower: the follow target's coordinates, the clock
\* (performance.now(), in ms), the image loads and the start() continuations
\* not yet run, the requested frames not yet run other than the one animationId
\* names, the '.mouse-follower' elements in the parent; and what is remembered
\* of the calls made: whether stop() was called on the running follower with no
\* start() since, isMoving on the previous tick, the event dispatched last.
\* followTarget is the object the follower follows: the mouse target, whose
\* coordinates target holds, or an OffsetTarget around it.
NoEnv ==
    [target |-> Zero, now |-> 0, loads |-> 0, resumes |-> 0, frames |-> 0,
     wrappers |-> 0, halted |-> FALSE, prevMoving |-> FALSE, prevEvent |-> "none",
     followTarget |-> "mouse"]

\* The record of the last operation when none was made. name and direction
\* are the arguments of a call of a Sprite method and before is the sprite
\* before it, empty for any other operation.
NoCall ==
    [op |-> "new", dt |-> 0,
     pre |-> [position |-> Zero, velocity |-> Zero, target |-> Zero],
     stopped |-> FALSE, accel |-> Zero, brakingForce |-> 0, raw |-> Zero,
     threshold |-> 0, result |-> FALSE,
     distance |-> 0, force |-> 0, forceNext |-> 0,
     owner |-> NoFollower, around |-> NoEnv, updated |-> FALSE,
     moving |-> FALSE, events |-> <<>>, value |-> 0, read |-> 0,
     name |-> "", direction |-> "right", before |-> <<>>]

\* A constructor whose instances all use one state object.
constructorShares_Static == TRUE

\* constructor: this.state is an object literal, a new object in every
\* instance.
constructorShares == FALSE

\* A Physics instance on its own: no second instance shares anything with it,
\* no follower owns it.
NoPeer ==
    [state |-> [position |-> Zero, velocity |-> Zero, target |-> Zero],
     sameObject |-> constructorShares]
NoOwner ==
    /\ given = config
    /\ peer = NoPeer
    /\ follower = NoFollower
    /\ env = NoEnv

\* The second instance after the first wrote into its this.state object.
peerAfterWrite(s) == IF peer.sameObject THEN [peer EXCEPT !.state = s] ELSE peer

\* The second instance after the first assigned a new object to its this.state.
peerAfterAssign == [peer EXCEPT !.sameObject = FALSE]

\* A constructor that ignores initialPosition for the position.
constructor_AtOrigin(initialPosition) ==
    [position |-> Zero, velocity |-> Zero, target |-> initialPosition]

\* constructor: position and target are copies of initialPosition.
constructor(initialPosition) ==
    [position |-> initialPosition, velocity |-> Zero, target |-> initialPosition]

\* The fields of the new state that are the caller's initialPosition object.
constructorAlias == {}

Init ==
    /\ sprite = NoSprite
    /\ config \in Configs
    /\ \E p \in InitialPositions :
          /\ state = constructor(p)
          /\ held = [val |-> p, alias |-> constructorAlias, source |-> "constructor"]
    /\ last = NoCall
    /\ steps = 0
    /\ frameDt = 0
    /\ NoOwner

\* Which caller-held references survive update(): updatePhysics returns a new
\* velocity object, a new position object unless it stops completely, and the
\* same target object.
updateAlias(alias, stopped) ==
    IF stopped THEN alias \ {"velocity"} ELSE alias \ {"velocity", "position"}

\* update(deltaTime): this.state = updatePhysics(this.state, this.config, deltaTime)
update(deltaTime) ==
    /\ state' = updatePhysics(state, config, deltaTime)
    /\ held' = [held EXCEPT !.alias = updateAlias(@, completeStop(state, config))]
    /\ last' = [NoCall EXCEPT
                   !.op = "update", !.dt = deltaTime, !.pre = state,
                   !.stopped = completeStop(state, config),
                   !.accel = calculateAcceleration(state.position, state.target,
                                                   config.maxAccel),
                   !.brakingForce = calculateBrakingForce(
                       calculateDistance(state.position, state.target),
                       config.stopWithin, config.brakingStartDistance,
                       config.brakingStrength),
                   !.raw = newVelocity(state, config, deltaTime)]
    /\ peer' = peerAfterAssign
    /\ UNCHANGED <<config, given, follower, env, sprite>>

Update ==
    /\ steps < MaxSteps
    /\ \E dt \in DtSet : update(dt)
    /\ steps' = steps + 1
    /\ UNCHANGED frameDt

\* The fields of the state that are the object passed to setTarget.
setTargetAlias == {}

\* setTarget that also brings the body to a halt.
setTarget_Halt(target) ==
    /\ state' = [state EXCEPT !.target = target, !.velocity = Zero]
    /\ held' = [val |-> target, alias |-> setTargetAlias, source |-> "setTarget"]
    /\ last' = [NoCall EXCEPT !.op = "setTarget", !.pre = state]
    /\ peer' = peerAfterWrite(state')
    /\ UNCHANGED <<config, steps, frameDt, given, follower, env, sprite>>

\* setTarget(target): this.state.target = { ...target }
setTarget(target) ==
    /\ state' = [state EXCEPT !.target = target]
    /\ held' = [val |-> target, alias |-> setTargetAlias, source |-> "setTarget"]
    /\ last' = [NoCall EXCEPT !.op = "setTarget", !.pre = state]
    /\ peer' = peerAfterWrite(state')
    /\ UNCHANGED <<config, steps, frameDt, given, follower, env, sprite>>

SetTarget == \E t \in TargetSet : setTarget(t)

\* getPosition that returns this.state.position itself.
getPosition_Live == [val |-> state.position, alias |-> {"position"}, source |-> "getPosition"]

\* getPosition(): return { ...this.state.position }
getPosition == [val |-> state.position, alias |-> {}, source |-> "getPosition"]

\* getVelocity(): return { ...this.state.velocity }
getVelocity == [val |-> state.velocity, alias |-> {}, source |-> "getVelocity"]

GetPosition ==
    /\ held' = getPosition
    /\ last' = [NoCall EXCEPT !.op = "getPosition", !.pre = state]
    /\ UNCHANGED <<state, config, steps, frameDt, given, peer,
                   follower, env, sprite>>

GetVelocity ==
    /\ held' = getVelocity
    /\ last' = [NoCall EXCEPT !.op = "getVelocity", !.pre = state]
    /\ UNCHANGED <<state, config, steps, frameDt, given, peer,
                   follower, env, sprite>>

\* The caller assigns to the object it holds; a field of the state that is
\* that object changes with it.
CallerMutate ==
    \E w \in MutateSet :
       /\ held.val # w
       /\ held' = [held EXCEPT !.val = w]
       /\ state' = [f \in Fields |-> IF f \in held.alias THEN w ELSE state[f]]
       /\ last' = [NoCall EXCEPT !.op = "mutate", !.pre = state]
       /\ peer' = peerAfterWrite(state')
       /\ UNCHANGED <<config, steps, frameDt, given, follower, env, sprite>>

\* constructor: this.config = config, the caller's object itself.
constructorKeepsConfig == TRUE

\* What a caller writes into the maxAccel of the config object it passed in.
AccelWriteSet == {0}

\* The caller assigns to a field of the config object it passed to the
\* constructor; this.config changes with it when it is that object.
CallerMutateConfig ==
    \E a \in AccelWriteSet :
       /\ config.maxAccel # a
       /\ config' = IF constructorKeepsConfig
                    THEN [config EXCEPT !.maxAccel = a] ELSE config
       /\ last' = [NoCall EXCEPT !.op = "mutateConfig", !.pre = state]
       /\ UNCHANGED <<state, held, steps, frameDt, given, peer,
                      follower, env, sprite>>

\* isMoving with >= for >.
isMoving_AtLeast(threshold) ==
    LET speed == Hypot[state.velocity.x, state.velocity.y]
    IN  speed >= threshold

\* isMoving(threshold): speed > threshold
isMoving(threshold) ==
    LET speed == Hypot[state.velocity.x, state.velocity.y]
    IN  speed > threshold

\* isMoving(): the threshold defaults to 10.0
isMovingDefault == isMoving(Px(DefaultThreshold))

IsMoving ==
    \E th \in {Px(1), Px(100), Hypot[state.velocity.x, state.velocity.y]} :
       /\ last' = [NoCall EXCEPT !.op = "isMoving", !.pre = state,
                      !.threshold = th, !.result = isMoving(th)]
       /\ UNCHANGED <<state, config, held, steps, frameDt, given, peer,
                      follower, env, sprite>>

IsMovingDefault ==
    /\ last' = [NoCall EXCEPT !.op = "isMovingDefault", !.pre = state,
                   !.result = isMovingDefault]
    /\ UNCHANGED <<state, config, held, steps, frameDt, given, peer,
                   follower, env, sprite>>

Next ==
    \/ Update
    \/ SetTarget
    \/ GetPosition
    \/ GetVelocity
    \/ CallerMutate
    \/ CallerMutateConfig
    \/ IsMoving
    \/ IsMovingDefault

Spec == Init /\ [][Next]_vars

----------------------------------------------------------------------------
\* updatePhysics as an exported function: any input state, the result passed
\* to the next call, the target replaced between calls

InitStep ==
    /\ sprite = NoSprite
    /\ config \in Configs
    /\ state \in [position : StepPositions, velocity : StepVelocities,
                  target : StepTargets]
    /\ held = [val |-> Zero, alias |-> {}, source |-> "none"]
    /\ last = NoCall
    /\ steps = 0
    /\ frameDt = 0
    /\ NoOwner

NextStep ==
    \/ Update
    \/ SetTarget

SpecStep == InitStep /\ [][NextStep]_vars

----------------------------------------------------------------------------
\* The driving loop: update(frameDt) once per frame, the target fixed

InitConverge ==
    /\ sprite = NoSprite
    /\ config \in Configs
    /\ frameDt \in FrameDtSet
    /\ state \in [position : ConvergePositions, velocity : ConvergeVelocities,
                  target : {Zero}]
    /\ held = [val |-> Zero, alias |-> {}, source |-> "none"]
    /\ last = NoCall
    /\ steps = 0
    /\ NoOwner

Tick ==
    /\ update(frameDt)
    /\ UNCHANGED <<steps, frameDt>>

\* requestAnimationFrame calls the loop again every frame.
SpecConverge == InitConverge /\ [][Tick]_vars /\ WF_vars(Tick)

----------------------------------------------------------------------------
\* calculateBrakingForce applied to every distance up to MaxDistance pixels

InitBrake ==
    /\ sprite = NoSprite
    /\ config \in Configs
    /\ state = constructor(Zero)
    /\ held = [val |-> Zero, alias |-> {}, source |-> "none"]
    /\ last = NoCall
    /\ steps = 0
    /\ frameDt = 0
    /\ NoOwner

\* The distances 0, 1, 2, ... in turn.
BrakeProbe ==
    LET d == IF last.op = "brake" THEN last.distance + 1 ELSE 0
    IN  /\ d <= Px(MaxDistance)
        /\ last' = [NoCall EXCEPT
                      !.op = "brake", !.distance = d,
                      !.force = calculateBrakingForce(d, config.stopWithin,
                          config.brakingStartDistance, config.brakingStrength),
                      !.forceNext = calculateBrakingForce(d + 1, config.stopWithin,
                          config.brakingStartDistance, config.brakingStrength)]
        /\ UNCHANGED <<state, config, held, steps, frameDt, given, peer,
                       follower, env, sprite>>

SpecBrake == InitBrake /\ [][BrakeProbe]_vars

----------------------------------------------------------------------------
\* calculateBrakingForce with a braking zone of width zero

\* Configurations with brakingStartDistance = stopWithin.
EdgeConfigs ==
    {[c EXCEPT !.brakingStartDistance = c.stopWithin] : c \in Configs}

InitEdge ==
    /\ sprite = NoSprite
    /\ config \in EdgeConfigs
    /\ state = constructor(Zero)
    /\ held = [val |-> Zero, alias |-> {}, source |-> "none"]
    /\ last = NoCall
    /\ steps = 0
    /\ frameDt = 0
    /\ NoOwner

SpecEdge == InitEdge /\ [][BrakeProbe]_vars

----------------------------------------------------------------------------
\* Two Physics instances, the calls on them interleaved in any order

\* Points passed to the constructor of the second instance.
PeerPositions == {Vec(Px(0), Px(0)), Vec(Px(40), Px(-30))}

InitPair ==
    /\ sprite = NoSprite
    /\ config \in Configs
    /\ given = config
    /\ \E p \in InitialPositions :
          /\ state = constructor(p)
          /\ held = [val |-> p, alias |-> constructorAlias, source |-> "constructor"]
    /\ \E q \in PeerPositions :
          peer = [state |-> IF constructorShares THEN state ELSE constructor(q),
                  sameObject |-> constructorShares]
    /\ last = NoCall
    /\ steps = 0
    /\ frameDt = 0
    /\ follower = NoFollower
    /\ env = NoEnv

\* update(deltaTime) on the second instance: it assigns a new object to its
\* own this.state.
PeerUpdate ==
    /\ steps < MaxSteps
    /\ \E dt \in DtSet :
          /\ peer' = [state |-> updatePhysics(peer.state, config, dt),
                      sameObject |-> FALSE]
          /\ last' = [NoCall EXCEPT !.op = "peerUpdate", !.dt = dt,
                         !.pre = peer.state]
    /\ steps' = steps + 1
    /\ UNCHANGED <<state, config, held, frameDt, given, follower, env, sprite>>

\* setTarget(target) on the second instance: it writes into its this.state
\* object.
PeerSetTarget ==
    \E t \in TargetSet :
       /\ peer' = [peer EXCEPT !.state.target = t]
       /\ state' = IF peer.sameObject THEN [state EXCEPT !.target = t] ELSE state
       /\ last' = [NoCall EXCEPT !.op = "peerSetTarget", !.pre = peer.state]
       /\ UNCHANGED <<config, held, steps, frameDt, given,
                      follower, env, sprite>>

NextPair ==
    \/ Update
    \/ SetTarget
    \/ PeerUpdate
    \/ PeerSetTarget

SpecPair == InitPair /\ [][NextPair]_vars

----------------------------------------------------------------------------
\* The class FollowerImpl: one follower, its Physics, its Sprite, the frames
\* the browser runs and the follow target

\* Where the follow target is when the follower is constructed, and where it
\* moves: the origin is a new MouseTarget.
FollowerTargets == {Zero, Vec(Px(40), Px(30))}

\* What the caller assigns to follower.x and follower.y.
AssignSet == {Px(20)}

\* The time between two animation frames, in ms.
FrameMs == {67, 133}

\* animate, line 216: this.physics.isMoving(10.0)
MovingThreshold == 10

\* constructor, line 105: initialPosition = { x: followTarget.x, y: followTarget.y }
initialPosition(followTarget) == Vec(followTarget.x, followTarget.y)

\* The physics options the follower is given.
FollowerConfigs == {TestConfig}

InitFollower ==
    /\ sprite = NoSprite
    /\ config \in FollowerConfigs
    /\ given = config
    /\ \E t \in FollowerTargets :
          /\ env = [NoEnv EXCEPT !.target = t]
          /\ state = constructor(initialPosition(t))
    /\ follower = NoFollower
    /\ held = [val |-> Zero, alias |-> {}, source |-> "none"]
    /\ last = NoCall
    /\ steps = 0
    /\ frameDt = 0
    /\ peer = NoPeer

\* What an OffsetTarget around the mouse target adds to its coordinates.
Offsets == Vec(Px(20), Px(-10))

\* new OffsetTarget(target, offsetX, offsetY) that leaves the offsets out.
OffsetTarget_NoOffset(target, offsetX, offsetY) == Vec(target.x, target.y)

\* The x and y read from new OffsetTarget(target, offsetX, offsetY).
OffsetTarget(target, offsetX, offsetY) ==
    Vec(target.x + offsetX, target.y + offsetY)

\* The x and y read from options.followTarget: env.target holds the mouse
\* target's coordinates, and followTarget says whether the follower follows
\* the mouse target or an OffsetTarget around it.
followed(e) ==
    IF e.followTarget = "offset"
    THEN OffsetTarget(e.target, Offsets.x, Offsets.y)
    ELSE e.target

\* The tick's physics with update before setTarget.
setTargetThenUpdate_UpdateFirst(s, c, target, dt) ==
    [updatePhysics(s, c, dt) EXCEPT !.target = target]

\* animate, lines 197-199: physics.setTarget(target), then
\* physics.update(deltaTime).
setTargetThenUpdate(s, c, target, dt) ==
    updatePhysics([s EXCEPT !.target = target], c, dt)

\* getTargetPosition(): a copy of the follow target's coordinates.
getTargetPosition(followTarget) == Vec(followTarget.x, followTarget.y)

\* animate: deltaTime = (currentTime - this.lastTime) / 1000, in seconds.
deltaTime(currentTime, lastTime) == RoundDiv[(currentTime - lastTime) * Scale, 1000]

\* Events dispatched on every tick according to isMoving alone.
dispatched_Level(moving, wasMoving) ==
    IF moving THEN <<"start">> ELSE <<"stop">>

\* animate, lines 215-232: the events dispatched on a tick.
dispatched(moving, wasMoving) ==
    IF moving # wasMoving
    THEN IF moving THEN <<"start">> ELSE <<"stop">>
    ELSE <<>>

\* animate, lines 206-210: the direction the sprite is rendered with, "right"
\* unless |velocity.x| > 0.1.
spriteDirection(velocity) ==
    IF Abs(velocity.x) * 10 > Scale
    THEN IF velocity.x < 0 THEN "left" ELSE "right"
    ELSE "right"

\* animate(), called on the follower f with the surroundings e, in the course
\* of the operation op.
animate(f, e, op) ==
    IF ~f.isRunning
    THEN /\ state' = state
         /\ follower' = f
         /\ env' = e
         /\ last' = [NoCall EXCEPT !.op = op, !.pre = state,
                        !.owner = follower, !.around = env]
    ELSE LET dt == deltaTime(e.now, f.lastTime)
             target == getTargetPosition(followed(e))
         IN  /\ state' = setTargetThenUpdate(state, config, target, dt)
             /\ LET moving == isMoving(Px(MovingThreshold))'
                    events == dispatched(moving, f.wasMoving)
                IN  /\ follower' = [f EXCEPT
                                       !.lastTime = e.now,
                                       !.wasMoving = moving,
                                       !.animationId = "pending",
                                       !.sprite.facing =
                                           IF f.sprite.isInitialized
                                           THEN spriteDirection(state'.velocity)
                                           ELSE @]
                    /\ env' = [e EXCEPT
                                  !.frames = @ + IF f.animationId = "pending"
                                                 THEN 1 ELSE 0,
                                  !.prevMoving = moving,
                                  !.prevEvent = IF events = <<>> THEN @
                                                ELSE events[1]]
                    /\ last' = [NoCall EXCEPT
                                   !.op = op, !.dt = dt, !.pre = state,
                                   !.owner = follower, !.around = env,
                                   !.updated = TRUE, !.moving = moving,
                                   !.events = events]

\* start() up to its await: nothing when running, otherwise
\* sprite.initialize(), which returns at once when the sprite is initialized
\* and starts loading the image when it is not.
Start ==
    /\ IF follower.isRunning
       THEN env' = [env EXCEPT !.halted = FALSE]
       ELSE /\ env.loads + env.resumes + env.frames < MaxPending
            /\ env' = [env EXCEPT
                          !.halted = FALSE,
                          !.loads = @ + IF follower.sprite.isInitialized THEN 0 ELSE 1,
                          !.resumes = @ + IF follower.sprite.isInitialized THEN 1 ELSE 0]
    /\ last' = [NoCall EXCEPT !.op = "start", !.owner = follower, !.around = env]
    /\ UNCHANGED <<state, config, held, steps, frameDt, given,
                   peer, follower, sprite>>

\* The rest of start() after the await: lastTime, isRunning,
\* sprite.playAnimation("walk"), which does nothing on a sprite that is not
\* initialized.
started(f, e) ==
    [f EXCEPT !.lastTime = e.now, !.isRunning = TRUE,
              !.sprite.isPlaying = IF f.sprite.isInitialized THEN TRUE ELSE @]

\* The image is loaded: initialize() creates the wrapper, appends it to the
\* parent and sets #isInitialized; start() goes on and calls animate().
LoadResolve ==
    /\ env.loads > 0
    /\ LET f == [follower EXCEPT !.sprite.isInitialized = TRUE,
                                 !.sprite.wrapper = TRUE]
           e == [env EXCEPT !.loads = @ - 1, !.wrappers = @ + 1]
       IN  animate(started(f, e), e, "started")
    /\ UNCHANGED <<config, held, steps, frameDt, given, peer, sprite>>

\* A start() that went wrong with isRunning set all the same.
startFailed_Running(f) == [f EXCEPT !.isRunning = TRUE]

\* start(), lines 125-128: the error is logged and thrown again.
startFailed(f) == f

\* The image fails to load: initialize() throws before it creates anything,
\* start() rejects.
LoadReject ==
    /\ env.loads > 0
    /\ follower' = startFailed(follower)
    /\ env' = [env EXCEPT !.loads = @ - 1]
    /\ last' = [NoCall EXCEPT !.op = "startRejected", !.pre = state,
                   !.owner = follower, !.around = env]
    /\ UNCHANGED <<state, config, held, steps, frameDt, given, peer, sprite>>

\* start() goes on after awaiting the initialize() of an initialized sprite.
StartResume ==
    /\ env.resumes > 0
    /\ LET e == [env EXCEPT !.resumes = @ - 1]
       IN  animate(started(follower, e), e, "started")
    /\ UNCHANGED <<config, held, steps, frameDt, given, peer, sprite>>

\* The browser runs a requested frame, the one animationId names or another
\* one: animate().
Frame ==
    /\ steps < MaxFrames
    /\ \E ms \in FrameMs, named \in BOOLEAN :
          /\ IF named THEN follower.animationId = "pending" ELSE env.frames > 0
          /\ LET f == IF named THEN [follower EXCEPT !.animationId = "fired"]
                      ELSE follower
                 e == [env EXCEPT !.now = @ + ms,
                                  !.frames = IF named THEN @ ELSE @ - 1]
             IN  animate(f, e, "animate")
    /\ steps' = steps + 1
    /\ UNCHANGED <<config, held, frameDt, given, peer, sprite>>

\* stop(): isRunning = false, the frame animationId names is cancelled,
\* sprite.pauseAnimation().
stop(f) ==
    [f EXCEPT !.isRunning = FALSE, !.animationId = "undefined",
              !.sprite.isPlaying = FALSE]

Stop ==
    /\ follower' = stop(follower)
    /\ env' = IF follower.isRunning
              THEN [env EXCEPT !.halted = TRUE]
              ELSE env
    /\ last' = [NoCall EXCEPT !.op = "stop"]
    /\ UNCHANGED <<state, config, held, steps, frameDt, given, peer, sprite>>

\* The follow target moves (a mousemove event).
MoveTarget ==
    \E t \in FollowerTargets :
       /\ t # env.target
       /\ env' = [env EXCEPT !.target = t]
       /\ last' = [NoCall EXCEPT !.op = "mousemove"]
       /\ UNCHANGED <<state, config, held, steps, frameDt, given,
                      peer, follower, sprite>>

\* follower.setTarget(target): the follower follows another target object.
SetTarget_Follower ==
    \E t \in {"mouse", "offset"} :
       /\ t # env.followTarget
       /\ env' = [env EXCEPT !.followTarget = t]
       /\ last' = [NoCall EXCEPT !.op = "follow"]
       /\ UNCHANGED <<state, config, held, steps, frameDt, given,
                      peer, follower, sprite>>

\* get x(): this.physics.getPosition().x
getX(s) == s.position.x

\* get y(): this.physics.getPosition().y
getY(s) == s.position.y

\* set x(value): this.physics.setTarget({ x: value, y: currentPos.y })
setX(s, value) == [s EXCEPT !.target = Vec(value, s.position.y)]

\* set y(value): this.physics.setTarget({ x: currentPos.x, y: value })
setY(s, value) == [s EXCEPT !.target = Vec(s.position.x, value)]

\* follower.x = value, and follower.x read right after it.
AssignX ==
    \E value \in AssignSet :
       /\ state' = setX(state, value)
       /\ last' = [NoCall EXCEPT !.op = "setX", !.value = value,
                      !.read = getX(setX(state, value))]
       /\ UNCHANGED <<config, held, steps, frameDt, given, peer,
                      follower, env, sprite>>

\* follower.y = value, and follower.y read right after it.
AssignY ==
    \E value \in AssignSet :
       /\ state' = setY(state, value)
       /\ last' = [NoCall EXCEPT !.op = "setY", !.value = value,
                      !.read = getY(setY(state, value))]
       /\ UNCHANGED <<config, held, steps, frameDt, given, peer,
                      follower, env, sprite>>

NextFollower ==
    \/ Start
    \/ LoadResolve
    \/ LoadReject
    \/ StartResume
    \/ Frame
    \/ Stop
    \/ MoveTarget

SpecFollower == InitFollower /\ [][NextFollower]_vars

\* A follower that is started and whose x and y are assigned to, before it is
\* started and while it runs.
NextAssign ==
    \/ Start
    \/ LoadResolve
    \/ Frame
    \/ AssignX
    \/ AssignY

SpecAssign == InitFollower /\ [][NextAssign]_vars

\* start() called while no start() is in progress.
StartAlone ==
    /\ env.loads = 0
    /\ Start

\* A follower that is started once and whose follow target moves and is
\* replaced between the frames.
NextTarget ==
    \/ StartAlone
    \/ LoadResolve
    \/ Frame
    \/ MoveTarget
    \/ SetTarget_Follower

SpecTarget == InitFollower /\ [][NextTarget]_vars

----------------------------------------------------------------------------
\* A Sprite on its own: its methods called in any order, the image loading or
\* failing to load in between, the interval timer firing

InitSprite ==
    /\ sprite \in {Sprite(animations, parent) :
                      animations \in AnimationSets, parent \in BOOLEAN}
    /\ config = TestConfig
    /\ given = config
    /\ state = constructor(Zero)
    /\ held = [val |-> Zero, alias |-> {}, source |-> "none"]
    /\ last = NoCall
    /\ steps = 0
    /\ frameDt = 0
    /\ peer = NoPeer
    /\ follower = NoFollower
    /\ env = NoEnv

\* A call of a method of the sprite that leaves it as s.
called(op, name, direction, s) ==
    /\ steps < MaxCalls
    /\ sprite' = s
    /\ last' = [NoCall EXCEPT !.op = op, !.name = name, !.direction = direction,
                              !.before = sprite]
    /\ steps' = steps + 1
    /\ UNCHANGED <<state, config, held, frameDt, given, peer, follower, env>>

\* What happens to the sprite between the calls.
happened(op, s) ==
    /\ sprite' = s
    /\ last' = [NoCall EXCEPT !.op = op, !.before = sprite]
    /\ UNCHANGED <<state, config, held, steps, frameDt, given, peer, follower, env>>

\* initialize() up to its await: nothing if #isInitialized, else the image is
\* requested.
Initialize ==
    /\ sprite.loads < MaxPending
    /\ called("initialize", "", "right",
              IF sprite.isInitialized THEN sprite
              ELSE [sprite EXCEPT !.loads = @ + 1])

\* processSpriteImage resolves and initialize() runs to its end.
ImageLoaded ==
    /\ sprite.loads > 0
    /\ happened("initialized", initialized([sprite EXCEPT !.loads = @ - 1]))

\* processSpriteImage rejects and initialize() throws.
ImageFailed ==
    /\ sprite.loads > 0
    /\ happened("initializeRejected", [sprite EXCEPT !.loads = @ - 1])

PlayAnimation ==
    \E name \in AnimationNames :
       called("playAnimation", name, "right", playAnimation(sprite, name))

PauseAnimation == called("pauseAnimation", "", "right", pauseAnimation(sprite))

Destroy == called("destroy", "", "right", destroy(sprite))

Render ==
    \E direction \in Directions :
       called("render", "", direction, render(sprite, direction))

\* An interval timer of the animation fires.
UpdateFrame ==
    /\ sprite.animation.active > 0
    /\ happened("updateFrame",
                [sprite EXCEPT !.animation = updateFrame(@, sprite.animations)])

NextSprite ==
    \/ Initialize
    \/ ImageLoaded
    \/ ImageFailed
    \/ PlayAnimation
    \/ PauseAnimation
    \/ Destroy
    \/ Render
    \/ UpdateFrame

\* setInterval keeps calling #updateFrame until the timer is cleared.
SpecSprite == InitSprite /\ [][NextSprite]_vars /\ WF_vars(UpdateFrame)

----------------------------------------------------------------------------
\* Properties

\* The rounding error of a vector of magnitude m obtained by dividing a vector
\* by its length d > 0 and multiplying by m: the length is rounded to a unit,
\* which is 1/d of it, the ratio to 1/Scale, the product and the square root
\* to a unit.
Tol(m, d) == m \div Scale + m \div d + 2

Norm(v) == Hypot[v.x, v.y]

\* w points along v, within tol per component.
SameDirection(v, w, tol) ==
    /\ v.x * w.x >= 0
    /\ v.y * w.y >= 0
    /\ v.x * w.x + v.y * w.y > 0
    /\ Abs(v.x * w.y - v.y * w.x) <= tol * (Abs(v.x) + Abs(v.y))

Stopped(s) == [position |-> s.position, velocity |-> Zero, target |-> s.target]

\* C1: a tick that starts with distance(position, target) <= stopWithin and
\* |velocity| <= minStopVelocity returns velocity exactly {0,0} with position
\* and target as they were, whatever dt: nothing is integrated on that tick.
C1_ExactStop ==
    /\ (/\ calculateDistance(state.position, state.target) <= config.stopWithin
        /\ Norm(state.velocity) <= config.minStopVelocity)
       => \A dt \in DtSet : updatePhysics(state, config, dt) = Stopped(state)
    /\ (/\ last.op = "update"
        /\ calculateDistance(last.pre.position, last.pre.target) <= config.stopWithin
        /\ Norm(last.pre.velocity) <= config.minStopVelocity)
       => state = Stopped(last.pre)

\* A moving body inside the stop zone was stopped by update(dt), dt > 0.
C1_Witness ==
    /\ last.op = "update" /\ last.dt > 0
    /\ last.pre.velocity # Zero
    /\ calculateDistance(last.pre.position, last.pre.target) <= config.stopWithin
    /\ Norm(last.pre.velocity) <= config.minStopVelocity
    /\ state = Stopped(last.pre)

\* C2 as stated: after update the speed is <= maxVelocity, and a velocity
\* whose speed before the limit exceeded maxVelocity has speed exactly
\* maxVelocity.
C2_Original ==
    last.op = "update" =>
       /\ Norm(state.velocity) <= config.maxVelocity
       /\ (~last.stopped /\ Norm(last.raw) > config.maxVelocity)
             => Norm(state.velocity) = config.maxVelocity

\* C2 amended: after update, from any input state and after any sequence of
\* setTarget and update, the speed is <= maxVelocity up to the rounding error
\* of the rescaling; a velocity above the limit is rescaled to maxVelocity
\* within that error, keeping its direction, and exactly when it lies along
\* an axis.
C2_SpeedCap ==
    last.op = "update" =>
       LET V == config.maxVelocity
           v == state.velocity
           tol == Tol(V, V)
       IN  /\ Norm(v) <= V + tol
           /\ (~last.stopped /\ Norm(last.raw) > V)
                 => /\ Abs(Norm(v) - V) <= tol
                    /\ SameDirection(last.raw, v, tol)
                    /\ (last.raw.x = 0 \/ last.raw.y = 0) => Norm(v) = V

\* An input faster than the limit, not along an axis, was limited.
C2_Witness ==
    /\ last.op = "update" /\ ~last.stopped
    /\ Norm(last.pre.velocity) > config.maxVelocity
    /\ Norm(last.raw) > config.maxVelocity
    /\ last.raw.x # 0 /\ last.raw.y # 0
    /\ Abs(Norm(state.velocity) - config.maxVelocity)
          <= Tol(config.maxVelocity, config.maxVelocity)

AtRest ==
    /\ state.velocity = Zero
    /\ calculateDistance(state.position, state.target) <= config.stopWithin

OnTarget(s) == s.position = s.target /\ s.velocity = Zero

\* C4: when target = position and velocity = {0,0}, update leaves position,
\* velocity and target as they are, for every dt and however often it is called.
C4_RestIsFixedPoint ==
    /\ OnTarget(state) => \A dt \in DtSet : updatePhysics(state, config, dt) = state
    /\ (last.op = "update" /\ OnTarget(last.pre)) => state = last.pre

\* A second update(dt > 0) in a row on a body at rest on its target.
C4_Witness ==
    /\ steps = MaxSteps /\ steps > 1
    /\ last.op = "update" /\ last.dt > 0
    /\ OnTarget(last.pre) /\ OnTarget(state)

\* C5 as stated: the acceleration computed by a tick is the zero vector when
\* position = target and a vector of magnitude exactly maxAccel otherwise.
C5_Original ==
    last.op = "update" =>
       IF last.pre.position = last.pre.target
       THEN last.accel = Zero
       ELSE Norm(last.accel) = config.maxAccel

\* C5 amended: calculateAcceleration returns the zero vector when position =
\* target; otherwise a vector pointing from position to target whose
\* magnitude is maxAccel up to the rounding error of the normalisation,
\* whatever the distance, and exactly maxAccel along an axis.
C5_Acceleration ==
    last.op = "update" =>
       LET A == config.maxAccel
           d == Vec(last.pre.target.x - last.pre.position.x,
                    last.pre.target.y - last.pre.position.y)
       IN  IF d = Zero
           THEN last.accel = Zero
           ELSE /\ Abs(Norm(last.accel) - A) <= Tol(A, Norm(d))
                /\ SameDirection(d, last.accel, Tol(A, Norm(d)))
                /\ (d.x = 0 \/ d.y = 0) => Norm(last.accel) = A

\* The acceleration toward a target closer than stopWithin and not along an
\* axis: still of magnitude maxAccel.
C5_Witness ==
    /\ last.op = "update"
    /\ last.pre.position.x # last.pre.target.x
    /\ last.pre.position.y # last.pre.target.y
    /\ calculateDistance(last.pre.position, last.pre.target) < config.stopWithin
    /\ calculateDistance(last.pre.position, last.pre.target) > Px(1)
    /\ Abs(Norm(last.accel) - config.maxAccel) <= config.maxAccel \div Scale

\* C6: calculateBrakingForce is 0 for distance >= brakingStartDistance,
\* brakingStrength for distance <= stopWithin, and in between the linear ramp
\* brakingStrength * (1 - (distance - stopWithin) / (brakingStartDistance -
\* stopWithin)), here compared with the ramp written as one fraction,
\* brakingStrength * (brakingStartDistance - distance) / brakingRange, up to
\* the rounding of the ratio and of the product; it does not increase with the
\* distance and lies between 0 and brakingStrength.
C6_BrakingForce ==
    last.op = "brake" =>
       LET d == last.distance
           sw == config.stopWithin
           bsd == config.brakingStartDistance
           bs == config.brakingStrength
           range == bsd - sw
       IN  /\ d >= bsd => last.force = 0
           /\ d <= sw => last.force = bs
           /\ (sw < d /\ d < bsd) =>
                 2 * Scale * Abs(last.force * range - bs * (bsd - d))
                     <= (bs + Scale) * range
           /\ last.forceNext <= last.force
           /\ 0 <= last.force /\ last.force <= bs

\* A distance inside the braking zone, the force strictly between 0 and
\* brakingStrength and falling.
C6_Witness ==
    /\ last.op = "brake"
    /\ config.stopWithin < last.distance
    /\ last.distance < config.brakingStartDistance
    /\ 0 < last.force /\ last.force < config.brakingStrength
    /\ last.forceNext < last.force

\* C7: on a tick that does not stop completely the velocity before the limit
\* is v + accel * dt - v * brake * dt on each axis; at a distance >=
\* brakingStartDistance the braking force is 0 and the velocity changes by
\* accel * dt, an acceleration toward the target, whatever the velocity; and
\* that velocity is the new velocity unless the limit applies.
C7_VelocityIntegration ==
    (last.op = "update" /\ ~last.stopped) =>
       LET p == last.pre
           a == last.accel
           b == last.brakingForce
           dt == last.dt
       IN  /\ last.raw.x = p.velocity.x + Mul(a.x, dt) - Mul(Mul(p.velocity.x, b), dt)
           /\ last.raw.y = p.velocity.y + Mul(a.y, dt) - Mul(Mul(p.velocity.y, b), dt)
           /\ calculateDistance(p.position, p.target) >= config.brakingStartDistance
                 => /\ b = 0
                    /\ last.raw.x - p.velocity.x = Mul(a.x, dt)
                    /\ last.raw.y - p.velocity.y = Mul(a.y, dt)
                    /\ a.x * (p.target.x - p.position.x) >= 0
                    /\ a.y * (p.target.y - p.position.y) >= 0
                    /\ a # Zero
           /\ Norm(last.raw) <= config.maxVelocity => state.velocity = last.raw

\* A moving body inside the braking zone: update(dt > 0) applied a braking
\* force and the velocity changed.
C7_Witness ==
    /\ last.op = "update" /\ ~last.stopped /\ last.dt > 0
    /\ last.brakingForce > 0
    /\ last.pre.velocity.x # 0 /\ last.pre.velocity.y # 0
    /\ last.raw # last.pre.velocity
    /\ state.velocity = last.raw

\* C8: update never changes the target, in the stopping and in the
\* integrating branch alike, and setTarget changes nothing but the target.
C8_DisjointWrites ==
    [][/\ last'.op = "update" => state'.target = state.target
       /\ last'.op = "setTarget" => /\ state'.position = state.position
                                    /\ state'.velocity = state.velocity]_vars

\* setTarget moved the target of a moving body.
C8_Witness ==
    /\ last.op = "setTarget"
    /\ state.target # last.pre.target
    /\ state.velocity # Zero
    /\ state.velocity = last.pre.velocity
    /\ state.position = last.pre.position

\* C9: writing into an object returned by getPosition or getVelocity, or into
\* the object that was passed to the constructor or to setTarget, changes
\* neither position nor velocity nor target of the instance.
C9_GettersReturnCopies ==
    [][last'.op = "mutate" => state' = state]_vars

\* The caller wrote into the object getPosition returned after the body had
\* moved.
C9_Witness ==
    /\ last.op = "mutate"
    /\ held.source = "getPosition"
    /\ steps > 0
    /\ state.position # held.val
    /\ state = last.pre

\* C10: isMoving(threshold) is true exactly when the speed is greater than
\* the threshold, isMoving() uses the threshold 10, neither changes the state,
\* and both are false after construction and after a tick that stopped
\* completely.
C10_IsMoving ==
    /\ last.op = "isMoving" =>
          /\ last.result <=> Norm(last.pre.velocity) > last.threshold
          /\ state = last.pre
    /\ last.op = "isMovingDefault" =>
          /\ last.result <=> Norm(last.pre.velocity) > Px(10)
          /\ state = last.pre
    /\ (last.op = "new" \/ (last.op = "update" /\ last.stopped)) =>
          /\ ~isMovingDefault
          /\ \A th \in {0, Px(1)} : ~isMoving(th)

\* isMoving asked with the threshold equal to the speed of a moving body: false.
C10_Witness ==
    /\ last.op = "isMoving"
    /\ last.threshold > 0
    /\ last.threshold = Norm(state.velocity)
    /\ ~last.result

\* C13: update works with the six scalars that were given to the constructor,
\* whatever the caller has done since to the config object it passed in: the
\* state after update is what updatePhysics makes of the state before with
\* those scalars.
C13_ConfigImmutable ==
    last.op = "update" => state = updatePhysics(last.pre, given, last.dt)

\* C12: a call of setTarget or update on one of two Physics instances gives that
\* instance the state the call computes from its own state alone and leaves
\* position, velocity and target of the other instance as they were; hence
\* advancing both gives the same pair of states in either order.
C12_InstanceIndependence ==
    [][/\ last'.op = "update" =>
            /\ state' = updatePhysics(state, config, last'.dt)
            /\ peer'.state = peer.state
       /\ last'.op = "setTarget" =>
            /\ state' = [state EXCEPT !.target = held'.val]
            /\ peer'.state = peer.state
       /\ last'.op = "peerUpdate" =>
            /\ peer'.state = updatePhysics(peer.state, config, last'.dt)
            /\ state' = state
       /\ last'.op = "peerSetTarget" =>
            /\ peer'.state.position = peer.state.position
            /\ peer'.state.velocity = peer.state.velocity
            /\ state' = state]_vars

\* C12 happens: both instances were given a target and advanced, and they are
\* in different states.
C12_Witness ==
    /\ last.op \in {"update", "peerUpdate"}
    /\ state.velocity # Zero
    /\ peer.state.velocity # Zero
    /\ state.position # peer.state.position
    /\ state.target # peer.state.target
\* w is v multiplied by a factor in [0,1]: between 0 and v, on v's side.
ScaledDown(v, w) ==
    /\ v >= 0 => (0 <= w /\ w <= v)
    /\ v <= 0 => (v <= w /\ w <= 0)

\* w is v multiplied by a negative factor.
Reversed(v, w) ==
    /\ v > Scale => w < 0
    /\ v < -Scale => w > 0

\* An update of a body on its target that moves faster than minStopVelocity.
BrakingOnly ==
    /\ last.op = "update"
    /\ last.pre.position = last.pre.target
    /\ Norm(last.pre.velocity) > config.minStopVelocity

\* C14 as stated: with position = target and speed above minStopVelocity one
\* update, whatever its dt >= 0, multiplies each velocity component by a factor
\* in [0,1]: the speed does not grow and the direction is not reversed.
C14_Original ==
    BrakingOnly =>
       /\ ScaledDown(last.pre.velocity.x, state.velocity.x)
       /\ ScaledDown(last.pre.velocity.y, state.velocity.y)

\* C14: with position = target and speed above minStopVelocity the driving
\* acceleration is zero, the braking force is brakingStrength and one update
\* multiplies each velocity component by 1 - brakingStrength * dt (and then by
\* the factor of the velocity limit, which is in (0,1]). For
\* dt <= 1 / brakingStrength that factor is in [0,1]; for a larger dt it is
\* negative and the velocity is reversed.
C14_BrakingScales ==
    BrakingOnly =>
       /\ last.accel = Zero
       /\ last.brakingForce = config.brakingStrength
       /\ last.raw.x = last.pre.velocity.x
                          - Mul(Mul(last.pre.velocity.x, config.brakingStrength), last.dt)
       /\ last.raw.y = last.pre.velocity.y
                          - Mul(Mul(last.pre.velocity.y, config.brakingStrength), last.dt)
       /\ ScaledDown(last.raw.x, state.velocity.x)
       /\ ScaledDown(last.raw.y, state.velocity.y)
       /\ IF config.brakingStrength * last.dt <= Scale * Scale
          THEN /\ ScaledDown(last.pre.velocity.x, state.velocity.x)
               /\ ScaledDown(last.pre.velocity.y, state.velocity.y)
          ELSE /\ Reversed(last.pre.velocity.x, state.velocity.x)
               /\ Reversed(last.pre.velocity.y, state.velocity.y)

\* A body on its target slowed down by an update of a short dt, and one
\* reversed by an update of a long dt.
C14_Witness ==
    /\ BrakingOnly
    /\ last.dt > 0
    /\ last.pre.velocity.x # 0 /\ last.pre.velocity.y # 0
    /\ config.brakingStrength * last.dt <= Scale * Scale
    /\ Norm(state.velocity) < Norm(last.pre.velocity)
    /\ state.velocity # Zero
\* C15 as stated: with brakingStartDistance = stopWithin some distance makes
\* calculateBrakingForce evaluate the ramp, whose denominator is zero, and the
\* result is neither 0 nor brakingStrength.
C15_Original ==
    config.brakingStartDistance = config.stopWithin =>
       \E distance \in 0..Px(MaxDistance) :
          calculateBrakingForce(distance, config.stopWithin,
              config.brakingStartDistance, config.brakingStrength)
             \notin {0, config.brakingStrength}

\* C15: with brakingStartDistance = stopWithin no distance reaches the ramp:
\* distance >= brakingStartDistance returns 0 before it, and after that test
\* distance > stopWithin is false; the result is 0 for distance >=
\* brakingStartDistance and brakingStrength for every smaller distance, and
\* nothing is divided by zero.
C15_NoRamp ==
    (last.op = "brake" /\ config.brakingStartDistance = config.stopWithin) =>
       /\ last.force # NotANumber
       /\ last.distance >= config.brakingStartDistance => last.force = 0
       /\ last.distance < config.brakingStartDistance
             => last.force = config.brakingStrength

\* The distance just below brakingStartDistance = stopWithin: full braking
\* there, none one step further.
C15_Witness ==
    /\ last.op = "brake"
    /\ config.brakingStartDistance = config.stopWithin
    /\ last.distance = config.stopWithin - 1
    /\ last.force = config.brakingStrength
    /\ last.forceNext = 0
\* C11: a new Physics has position = target = the initial point it was given
\* and velocity {0,0}, and a new follower is at the coordinates its follow
\* target has when it is constructed, (0,0) for a new mouse target.
C11_InitialState ==
    last.op = "new" =>
       /\ state.position = initialPosition(env.target)
       /\ state.target = initialPosition(env.target)
       /\ state.velocity = Zero
       /\ state = constructor(initialPosition(env.target))
       /\ ~follower.isRunning

\* A follower constructed with a follow target away from the origin.
C11_Witness ==
    /\ last.op = "new"
    /\ env.target # Zero
    /\ state.position = env.target

\* C16: on a tick of the running follower 'start' is dispatched exactly when
\* isMoving(10) is true and was false on the previous tick (false before the
\* first), 'stop' exactly when it is false and was true, at most one event a
\* tick; a 'start' follows no event or a 'stop', a 'stop' follows a 'start'.
C16_EdgeTriggered ==
    last.updated =>
       LET was == last.around.prevMoving
       IN  /\ last.moving = isMoving(Px(MovingThreshold))
           /\ last.owner.wasMoving = was
           /\ follower.wasMoving = last.moving
           /\ last.events = IF last.moving /\ ~was THEN <<"start">>
                            ELSE IF ~last.moving /\ was THEN <<"stop">>
                            ELSE <<>>
           /\ Len(last.events) <= 1
           /\ last.events = <<"start">> => last.around.prevEvent \in {"none", "stop"}
           /\ last.events = <<"stop">> => last.around.prevEvent = "start"

\* The second 'start': the body moved, came to rest and moves again.
C16_Witness ==
    /\ last.updated
    /\ last.events = <<"start">>
    /\ last.around.prevEvent = "stop"

\* C17: follower.x and follower.y read the current position, and an assignment
\* to one of them sets the current position: the read right after it returns
\* the value assigned.
C17_AssignSetsPosition ==
    /\ last.op = "setX" => /\ last.read = getX(state)
                           /\ last.read = last.value
                           /\ state.position.x = last.value
    /\ last.op = "setY" => /\ last.read = getY(state)
                           /\ last.read = last.value
                           /\ state.position.y = last.value

\* C18: when the image fails to load, start() rejects and changes nothing: the
\* follower is as it was, not running if it was not, no frame is requested, the
\* physics is not updated, no wrapper is added to the parent, the sprite is not
\* initialized if it was not; and a start() called on a follower that is not
\* running and whose sprite is not initialized, as it is after the failure,
\* loads the image again.
C18_StartFailure ==
    /\ last.op = "startRejected" =>
          /\ follower = last.owner
          /\ ~last.owner.isRunning => ~follower.isRunning
          /\ ~last.owner.sprite.isInitialized => ~follower.sprite.isInitialized
          /\ state = last.pre
          /\ ~last.updated
          /\ env.frames = last.around.frames
          /\ env.wrappers = last.around.wrappers
          /\ env.loads = last.around.loads - 1
    /\ (/\ last.op = "start"
        /\ ~last.owner.isRunning /\ ~last.owner.sprite.isInitialized) =>
          env.loads = last.around.loads + 1

\* A start() rejected on a follower that never ran: it is not running, nothing
\* is in the parent, nothing is pending.
C18_Witness ==
    /\ last.op = "startRejected"
    /\ ~follower.isRunning
    /\ ~follower.sprite.isInitialized
    /\ follower.animationId = "undefined"
    /\ env.wrappers = 0
    /\ env.loads = 0

\* C19: start() on a running follower changes nothing (no wrapper is created,
\* lastTime is kept, no frame and no load is requested), and a running follower
\* has exactly one '.mouse-follower' element.
C19_StartOnRunning ==
    /\ (last.op = "start" /\ last.owner.isRunning) =>
          /\ follower = last.owner
          /\ env.wrappers = last.around.wrappers
          /\ env.frames = last.around.frames
          /\ env.loads = last.around.loads
          /\ env.resumes = last.around.resumes
    /\ follower.isRunning => env.wrappers = 1

\* C20: from a stop() on the running follower until the next call of start()
\* the follower is not running, no tick updates the physics or dispatches an
\* event, the position stays, and the sprite's animation is paused.
C20_StopHalts ==
    env.halted =>
       /\ ~follower.isRunning
       /\ ~last.updated
       /\ last.events = <<>>
       /\ last.op \in {"animate", "started"} => state.position = last.pre.position
       /\ ~follower.sprite.isPlaying

\* The distance the position moved in the last call.
Moved == calculateDistance(last.pre.position, state.position)

\* C25 as stated: on a tick without the complete stop the new position is
\* position + v' * dt, v' being the velocity after the limit, and the position
\* moves by at most maxVelocity * dt.
C25_Original ==
    (last.op = "update" /\ ~last.stopped) =>
       /\ state.position = Vec(last.pre.position.x + Mul(state.velocity.x, last.dt),
                               last.pre.position.y + Mul(state.velocity.y, last.dt))
       /\ Moved <= Mul(config.maxVelocity, last.dt)

\* C25 amended: on a tick without the complete stop the new position is
\* position + v' * dt, v' being the velocity after the limit, and the position
\* moves by at most maxVelocity * dt up to the rounding error of the limit and
\* of the products.
C25_IntegrateLimited ==
    (last.op = "update" /\ ~last.stopped) =>
       /\ state.position = Vec(last.pre.position.x + Mul(state.velocity.x, last.dt),
                               last.pre.position.y + Mul(state.velocity.y, last.dt))
       /\ Moved <= Mul(config.maxVelocity
                          + Tol(config.maxVelocity, config.maxVelocity), last.dt) + 2

\* A tick with dt > 0 on which the limit acted, so that the old velocity, the
\* velocity before the limit and the velocity after it give three positions.
C25_Witness ==
    /\ last.op = "update" /\ ~last.stopped /\ last.dt > 0
    /\ Norm(last.raw) > config.maxVelocity
    /\ Mul(last.raw.x, last.dt) # Mul(state.velocity.x, last.dt)
    /\ Mul(last.pre.velocity.x, last.dt) # Mul(state.velocity.x, last.dt)
    /\ state.position.x = last.pre.position.x + Mul(state.velocity.x, last.dt)
    /\ Moved > 0

\* The call was playAnimation on an initialized sprite with a name of its
\* animations config.
PlayedDefined ==
    /\ last.op = "playAnimation"
    /\ last.before.isInitialized
    /\ last.name \in DOMAIN sprite.animations

\* C22: after playAnimation with a name of the config on an initialized sprite
\* the current animation is the one asked for, the frame index is 0, the only
\* interval timer active is the new animation's, and isAnimating() is true
\* exactly when the animation has more than one frame.
C22_PlayPostcondition ==
    PlayedDefined =>
       LET numFrames == sprite.animations[last.name].numFrames
       IN  /\ getCurrentAnimation(sprite) = last.name
           /\ getCurrentFrameIndex(sprite) = 0
           /\ isAnimating(sprite) <=> numFrames > 1
           /\ sprite.animation.active = IF numFrames > 1 THEN 1 ELSE 0

\* An animation that was running and not on its first frame was replaced by
\* another one.
C22_Witness ==
    /\ PlayedDefined
    /\ last.before.animation.isPlaying
    /\ last.before.animation.index > 0
    /\ last.before.animation.name # last.name
    /\ getCurrentAnimation(sprite) = last.name
    /\ getCurrentFrameIndex(sprite) = 0

\* C23: playAnimation with a name that is not in the config, or on a sprite
\* that is not initialized, leaves the animation's name, index, isPlaying and
\* timer, and the rest of the sprite, as they were.
C23_RejectedPlay ==
    (/\ last.op = "playAnimation"
     /\ \/ last.name \notin DOMAIN sprite.animations
        \/ ~last.before.isInitialized)
    => sprite = last.before

\* An unknown name was asked for while an animation was running.
C23_Witness ==
    /\ last.op = "playAnimation"
    /\ last.name \notin DOMAIN sprite.animations
    /\ last.before.isInitialized
    /\ last.before.animation.isPlaying
    /\ last.before.animation.index > 0
    /\ isAnimating(sprite)

\* The animation that is current plays once.
PlaysOnce ==
    /\ sprite.animation.name \in DOMAIN sprite.animations
    /\ ~sprite.animations[sprite.animation.name].repeat

\* What a timer tick does to the frame index.
C24_Tick ==
    (/\ last.op = "updateFrame"
     /\ last.before.animation.name \in DOMAIN sprite.animations)
    => LET was == last.before.animation
           animation == sprite.animations[was.name]
           atEnd == was.index = animation.numFrames - 1
       IN  /\ animation.repeat =>
                 /\ sprite.animation.index = (was.index + 1) % animation.numFrames
                 /\ isAnimating(sprite) = was.isPlaying
           /\ (~animation.repeat /\ atEnd) =>
                 /\ sprite.animation.index = animation.numFrames - 1
                 /\ ~isAnimating(sprite)
                 /\ sprite.animation.active = was.active - 1
           /\ (~animation.repeat /\ ~atEnd) =>
                 /\ sprite.animation.index = was.index + 1
                 /\ isAnimating(sprite) = was.isPlaying

\* The frame index is one of the frames of the current animation.
C24_InRange ==
    sprite.animation.name \in DOMAIN sprite.animations =>
       /\ sprite.animation.index >= 0
       /\ sprite.animation.index < sprite.animations[sprite.animation.name].numFrames

\* C24: the frame index always is within 0..numFrames-1; a tick of a repeating
\* animation goes to the next frame, from the last one to frame 0, and leaves
\* it animating; an animation that plays once goes to the next frame, at the
\* last frame stops its timer and stays there, and, unless a repeating
\* animation is played in its place, always eventually is not animating.
C24_FrameProgression ==
    /\ [](C24_InRange /\ C24_Tick)
    /\ (isAnimating(sprite) /\ PlaysOnce) ~> (~isAnimating(sprite) \/ ~PlaysOnce)

\* An animation of several frames that plays once was stopped by its own
\* timer on its last frame.
C24_Witness ==
    /\ last.op = "updateFrame"
    /\ PlaysOnce
    /\ last.before.animation.isPlaying
    /\ last.before.animation.index > 0
    /\ ~isAnimating(sprite)
    /\ sprite.animation.index = last.before.animation.index

\* C28: isPlaying is true exactly when one interval timer of the Animation is
\* active, #timer holds an id exactly then, and never is more than one timer
\* active.
C28_TimerInvariant ==
    /\ sprite.animation.active = IF sprite.animation.isPlaying THEN 1 ELSE 0
    /\ sprite.animation.timer <=> sprite.animation.isPlaying

\* A running animation was replaced by another one of several frames, and one
\* timer is active.
C28_Witness ==
    /\ PlayedDefined
    /\ last.before.animation.isPlaying
    /\ last.before.animation.active = 1
    /\ isAnimating(sprite)
    /\ sprite.animation.active = 1

PendingFrames == (IF follower.animationId = "pending" THEN 1 ELSE 0) + env.frames

\* C29: after any interleaving of start() and stop(), a second start() while
\* the first awaits the sprite included, at most one requestAnimationFrame
\* callback of the follower is pending.
C29_SingleLoop == PendingFrames <= 1

\* C30: when stop() was called while a start() call awaits the sprite, and
\* start() was not called again, the follower is not running once that
\* start() settles: no frame is requested and the physics is not updated.
C30_StopWins ==
    [][(/\ last.op = "stop"
        /\ env.loads + env.resumes > 0
        /\ last'.op = "started")
       => /\ ~follower'.isRunning
          /\ follower'.animationId = "undefined"
          /\ ~last'.updated
          /\ state' = state]_vars

\* C27: on a tick with |velocity.x| > 0.1 the sprite faces left if velocity.x
\* < 0 and right otherwise; on a tick with |velocity.x| <= 0.1 the sprite keeps
\* the direction it was rendered with on the previous tick.
C27_StickyFacing ==
    [][(last'.updated /\ follower.sprite.facing # "none")
       => /\ Abs(state'.velocity.x) * 10 > Scale =>
                follower'.sprite.facing =
                    IF state'.velocity.x < 0 THEN "left" ELSE "right"
          /\ Abs(state'.velocity.x) * 10 <= Scale =>
                follower'.sprite.facing = follower.sprite.facing]_vars

\* C26: every tick reads the follow target's current x and y, for an
\* OffsetTarget the wrapped target's coordinates plus the offsets, writes them
\* as the target of the physics and then updates it, so that the tick after
\* follower.setTarget or after a move of the target steers toward the new
\* coordinates.
C26_TargetRefresh ==
    last.updated =>
       LET target == IF env.followTarget = "offset"
                     THEN Vec(env.target.x + Offsets.x, env.target.y + Offsets.y)
                     ELSE env.target
       IN  /\ state.target = target
           /\ state = updatePhysics([last.pre EXCEPT !.target = target],
                                    config, last.dt)

\* A tick with dt > 0 after the follower was given the OffsetTarget: the
\* physics got the new target and moved.
C26_Witness ==
    /\ last.updated
    /\ last.dt > 0
    /\ env.followTarget = "offset"
    /\ last.pre.target # state.target
    /\ state.target = Vec(env.target.x + Offsets.x, env.target.y + Offsets.y)
    /\ state.position # last.pre.position
====
